---- MODULE Spec2Model ----
(***************************************************************************)
(* A model of the bcrypt plugin of src/src/main.cpp: the natives           *)
(* bcrypt_hash / bcrypt_check, which start one detached thread per call,   *)
(* the two thread bodies, which append to bcrypt_queue under               *)
(* bcrypt_queue_mutex, ProcessTick, which delivers the queue to every AMX  *)
(* of p_Amx and clears it, and the AmxLoad / AmxUnload / Unload hooks.     *)
(***************************************************************************)
EXTENDS Integers, Sequences, FiniteSets, TLC

VARIABLES
    p_Amx,          \* std::vector<AMX*> p_Amx
    bcrypt_queue,   \* std::vector<bcrypt_queue_item> bcrypt_queue
    mutex,          \* bcrypt_queue_mutex: who owns it
    threads,        \* the detached std::threads, in the order they were started
    hostpc,         \* where the host thread is: idle, or inside ProcessTick
    a,              \* ProcessTick's iterator a, as an index into p_Amx
    t,              \* ProcessTick's iterator t, as an index into bcrypt_queue
    last,           \* the return value and logprintf line of the last native call
    calls,          \* history: the amx_Exec invocations made so far, in order
    pushed,         \* history: the push_backs made so far, in order
    cycle,          \* history: how often ProcessTick has taken the mutex
    tick_empty      \* history: bcrypt_queue was empty when the running ProcessTick was entered

vars == <<p_Amx, bcrypt_queue, mutex, threads, hostpc, a, t, last, calls,
          pushed, cycle, tick_empty>>

----------------------------------------------------------------------------
(* Bounds of the model. *)

\* at most this many entries in p_Amx
MaxAmx == 2
\* at most this many accepted native calls (threads started)
MaxJobs == 2

----------------------------------------------------------------------------
(* The environment: scripts and the arguments they pass. *)

\* the AMX handles the host may load
AMX == {1, 2}

\* the publics each script defines: 1 both callbacks, 2 only OnBcryptHashed
Publics(amx) ==
    IF amx = 1 THEN {"OnBcryptHashed", "OnBcryptChecked"} ELSE {"OnBcryptHashed"}

\* sizeof(cell): params[0] holds the argument count times this
CellSize == 4

\* unsigned short is 16 bits wide
UShortMod == 65536

\* ToUShort keeping all 32 bits of the cell
ToUShort_NoCast(v) == v

\* (unsigned short) params[4]
ToUShort(v) == v % UShortMod

\* bcrypt::generate with prefix "2y": an opaque digest of (cost, key)
bcrypt_generate(key, cost) == <<"2y", cost, key>>

\* bcrypt::compare(password, hash)
bcrypt_compare(password, hash) ==
    /\ Len(hash) = 3
    /\ hash = bcrypt_generate(password, hash[2])

\* amx_StrLen / amx_GetString: a string of length 0 is never fetched and
\* the std::string stays ""
AmxString(len, s) == IF len # 0 THEN s ELSE ""

\* the params arrays a script passes to bcrypt_hash:
\* n = params[0], then thread_idx, thread_id, password, cost
HashParams ==
    { [n |-> 4 * CellSize, thread_idx |-> 0, thread_id |-> 1, len |-> 1, str |-> "a", cost |-> 4],
      [n |-> 4 * CellSize, thread_idx |-> 1, thread_id |-> 2, len |-> 0, str |-> "",  cost |-> 31],
      [n |-> 4 * CellSize, thread_idx |-> 1, thread_id |-> 1, len |-> 1, str |-> "a", cost |-> 65540],
      [n |-> 4 * CellSize, thread_idx |-> 0, thread_id |-> 2, len |-> 1, str |-> "a", cost |-> 3],
      [n |-> 4 * CellSize, thread_idx |-> 0, thread_id |-> 1, len |-> 1, str |-> "a", cost |-> 32],
      [n |-> 3 * CellSize, thread_idx |-> 0, thread_id |-> 1, len |-> 1, str |-> "a", cost |-> 4],
      [n |-> 3 * CellSize, thread_idx |-> 0, thread_id |-> 1, len |-> 1, str |-> "a", cost |-> 32],
      [n |-> 4 * CellSize, thread_idx |-> 0, thread_id |-> 2, len |-> 1, str |-> "a", cost |-> -1] }

\* the params arrays a script passes to bcrypt_check:
\* n = params[0], then thread_idx, thread_id, password, hash
CheckParams ==
    { [n |-> 4 * CellSize, thread_idx |-> 0, thread_id |-> 1, len |-> 1, str |-> "a",
       hlen |-> 60, hash |-> bcrypt_generate("a", 4)],
      [n |-> 4 * CellSize, thread_idx |-> 1, thread_id |-> 3, len |-> 0, str |-> "",
       hlen |-> 0, hash |-> <<>>],
      [n |-> 5 * CellSize, thread_idx |-> 0, thread_id |-> 1, len |-> 1, str |-> "a",
       hlen |-> 60, hash |-> bcrypt_generate("a", 4)] }

----------------------------------------------------------------------------
(* Helpers. *)

Range(s) == {s[i] : i \in DOMAIN s}

Free == [owner |-> "none", id |-> 0]
HostOwner == [owner |-> "host", id |-> 0]
ThreadOwner(j) == [owner |-> "thread", id |-> j]

NoCall == [fn |-> "", ret |-> 0, diag |-> ""]

\* bcrypt_error: one logprintf line naming the function and the error
bcrypt_error(funcname, error) ==
    [fn |-> funcname, ret |-> 0, diag |-> error]

\* a native runs on the host thread, called by a script that AmxLoad
\* registered the natives with: from the host's other callbacks while no
\* ProcessTick is running, or from the public that amx_Exec is running
NativeCallable(amx) ==
    \/ hostpc = "idle" /\ amx \in Range(p_Amx)
    \/ hostpc = "exec" /\ a \in DOMAIN p_Amx /\ amx = p_Amx[a]

Init ==
    /\ p_Amx = <<>>
    /\ bcrypt_queue = <<>>
    /\ mutex = Free
    /\ threads = <<>>
    /\ hostpc = "idle"
    /\ a = 0
    /\ t = 0
    /\ last = NoCall
    /\ calls = <<>>
    /\ pushed = <<>>
    /\ cycle = 0
    /\ tick_empty = FALSE

----------------------------------------------------------------------------
(* The natives. *)

\* StartHashThread taking the queue mutex before it starts the thread
StartHashThread_Locked(thread_idx, thread_id, password, cost) ==
    /\ mutex = Free
    /\ Len(threads) < MaxJobs
    /\ threads' = Append(threads,
          [fn |-> "thread_generate_bcrypt", thread_idx |-> thread_idx,
           thread_id |-> thread_id, password |-> password, cost |-> cost,
           hash |-> <<>>, pc |-> "run",
           born |-> IF hostpc = "exec" THEN cycle ELSE 0])
    /\ last' = [fn |-> "bcrypt_hash", ret |-> 1, diag |-> ""]

\* std::thread t(thread_generate_bcrypt, ...); t.detach(); return 1;
\* born is history: the cycle in whose callback the native was called, 0
\* when it was called from outside ProcessTick
StartHashThread(thread_idx, thread_id, password, cost) ==
    /\ Len(threads) < MaxJobs
    /\ threads' = Append(threads,
          [fn |-> "thread_generate_bcrypt", thread_idx |-> thread_idx,
           thread_id |-> thread_id, password |-> password, cost |-> cost,
           hash |-> <<>>, pc |-> "run",
           born |-> IF hostpc = "exec" THEN cycle ELSE 0])
    /\ last' = [fn |-> "bcrypt_hash", ret |-> 1, diag |-> ""]

\* if (cost < 4 || cost > 31)
CostInvalid(cost) == cost < 4 \/ cost > 31

bcrypt_hash(amx, params) ==
    /\ NativeCallable(amx)
    /\ IF params.n # 4 * CellSize
       THEN /\ last' = bcrypt_error("bcrypt_hash", "Incorrect number of parameters (4 required)")
            /\ UNCHANGED threads
       ELSE LET cost == ToUShort(params.cost) IN
            IF CostInvalid(cost)
            THEN /\ last' = bcrypt_error("bcrypt_hash", "Invalid work factor (cost). Allowed range: 4-31")
                 /\ UNCHANGED threads
            ELSE StartHashThread(params.thread_idx, params.thread_id,
                                 AmxString(params.len, params.str), cost)
    /\ UNCHANGED <<p_Amx, bcrypt_queue, mutex, hostpc, a, t, calls, pushed, cycle, tick_empty>>

\* std::thread t(thread_check_bcrypt, ...); t.detach(); return 1;
StartCheckThread(thread_idx, thread_id, password, hash) ==
    /\ Len(threads) < MaxJobs
    /\ threads' = Append(threads,
          [fn |-> "thread_check_bcrypt", thread_idx |-> thread_idx,
           thread_id |-> thread_id, password |-> password, cost |-> 0,
           hash |-> hash, pc |-> "run",
           born |-> IF hostpc = "exec" THEN cycle ELSE 0])
    /\ last' = [fn |-> "bcrypt_check", ret |-> 1, diag |-> ""]

bcrypt_check(amx, params) ==
    /\ NativeCallable(amx)
    /\ IF params.n # 4 * CellSize
       THEN /\ last' = bcrypt_error("bcrypt_check", "Incorrect number of parameters (4 required)")
            /\ UNCHANGED threads
       ELSE StartCheckThread(params.thread_idx, params.thread_id,
                             AmxString(params.len, params.str),
                             IF params.hlen # 0 THEN params.hash ELSE <<>>)
    /\ UNCHANGED <<p_Amx, bcrypt_queue, mutex, hostpc, a, t, calls, pushed, cycle, tick_empty>>

----------------------------------------------------------------------------
(* The threads. *)

\* ThreadLock not waiting for the mutex to be free
ThreadLock_NoWait(j) ==
    /\ j \in DOMAIN threads
    /\ threads[j].pc = "run"
    /\ mutex' = ThreadOwner(j)
    /\ threads' = [threads EXCEPT ![j].pc = "locked"]
    /\ UNCHANGED <<p_Amx, bcrypt_queue, hostpc, a, t, last, calls, pushed, cycle, tick_empty>>

\* std::lock_guard<std::mutex> lock(bcrypt_queue_mutex), reached once the
\* thread has computed its result
ThreadLock(j) ==
    /\ j \in DOMAIN threads
    /\ threads[j].pc = "run"
    /\ mutex = Free
    /\ mutex' = ThreadOwner(j)
    /\ threads' = [threads EXCEPT ![j].pc = "locked"]
    /\ UNCHANGED <<p_Amx, bcrypt_queue, hostpc, a, t, last, calls, pushed, cycle, tick_empty>>

\* the item a thread pushes; job (which thread pushed it) is history
QueueItem(j) ==
    IF threads[j].fn = "thread_generate_bcrypt"
    THEN [type |-> "BCRYPT_QUEUE_HASH", thread_idx |-> threads[j].thread_idx,
          thread_id |-> threads[j].thread_id,
          hash |-> bcrypt_generate(threads[j].password, threads[j].cost),
          match |-> FALSE, job |-> j]
    ELSE [type |-> "BCRYPT_QUEUE_CHECK", thread_idx |-> threads[j].thread_idx,
          thread_id |-> threads[j].thread_id,
          hash |-> <<>>,
          match |-> bcrypt_compare(threads[j].password, threads[j].hash), job |-> j]

\* ThreadPush going back to wait for the mutex instead of ending the thread
ThreadPush_Repeat(j) ==
    /\ j \in DOMAIN threads
    /\ threads[j].pc = "locked"
    /\ mutex = ThreadOwner(j)
    /\ Len(pushed) <= MaxJobs
    /\ bcrypt_queue' = Append(bcrypt_queue, QueueItem(j))
    /\ pushed' = Append(pushed, [item |-> QueueItem(j), cycle |-> cycle])
    /\ mutex' = Free
    /\ threads' = [threads EXCEPT ![j].pc = "run"]
    /\ UNCHANGED <<p_Amx, hostpc, a, t, last, calls, cycle, tick_empty>>

\* ThreadPush inserting at the front of the queue instead of the back
ThreadPush_Front(j) ==
    /\ j \in DOMAIN threads
    /\ threads[j].pc = "locked"
    /\ mutex = ThreadOwner(j)
    /\ bcrypt_queue' = <<QueueItem(j)>> \o bcrypt_queue
    /\ pushed' = Append(pushed, [item |-> QueueItem(j), cycle |-> cycle])
    /\ mutex' = Free
    /\ threads' = [threads EXCEPT ![j].pc = "done"]
    /\ UNCHANGED <<p_Amx, hostpc, a, t, last, calls, cycle, tick_empty>>

\* ThreadPush with the thread itself calling the public of the first
\* registered script instead of leaving that to ProcessTick
ThreadPush_Callback(j) ==
    /\ j \in DOMAIN threads
    /\ threads[j].pc = "locked"
    /\ mutex = ThreadOwner(j)
    /\ bcrypt_queue' = Append(bcrypt_queue, QueueItem(j))
    /\ pushed' = Append(pushed, [item |-> QueueItem(j), cycle |-> cycle])
    /\ mutex' = Free
    /\ threads' = [threads EXCEPT ![j].pc = "done"]
    /\ calls' = IF p_Amx = <<>> THEN calls
                ELSE Append(calls,
                       [cycle |-> cycle, a |-> 1, t |-> Len(bcrypt_queue) + 1, amx |-> p_Amx[1],
                        name |-> "OnBcryptHashed",
                        args |-> <<QueueItem(j).thread_idx, QueueItem(j).thread_id, QueueItem(j).hash>>,
                        job |-> j])
    /\ UNCHANGED <<p_Amx, hostpc, a, t, last, cycle, tick_empty>>

\* bcrypt_queue.push_back({...}); the lock_guard releases the mutex as the
\* function returns and the thread ends
ThreadPush(j) ==
    /\ j \in DOMAIN threads
    /\ threads[j].pc = "locked"
    /\ mutex = ThreadOwner(j)
    /\ bcrypt_queue' = Append(bcrypt_queue, QueueItem(j))
    /\ pushed' = Append(pushed, [item |-> QueueItem(j), cycle |-> cycle])
    /\ mutex' = Free
    /\ threads' = [threads EXCEPT ![j].pc = "done"]
    /\ UNCHANGED <<p_Amx, hostpc, a, t, last, calls, cycle, tick_empty>>

thread_generate_bcrypt(j) ==
    /\ j \in DOMAIN threads
    /\ threads[j].fn = "thread_generate_bcrypt"
    /\ (ThreadLock(j) \/ ThreadPush(j))

thread_check_bcrypt(j) ==
    /\ j \in DOMAIN threads
    /\ threads[j].fn = "thread_check_bcrypt"
    /\ (ThreadLock(j) \/ ThreadPush(j))

----------------------------------------------------------------------------
(* ProcessTick. *)

\* SizePositive without the emptiness test: the body always runs
SizePositive_NoTest == {TRUE}

\* what "bcrypt_queue.size() > 0" can evaluate to. The read is made without
\* the mutex: while a thread is inside its locked push_back the read races
\* with the vector's update and may see either answer
SizePositive ==
    IF mutex.owner = "thread" THEN BOOLEAN ELSE {Len(bcrypt_queue) > 0}

\* ProcessTickEnter with bcrypt_queue.clear() after the if block instead of
\* inside it
ProcessTickEnter_ClearOutside ==
    /\ hostpc = "idle"
    /\ \E positive \in SizePositive :
          IF positive
          THEN /\ hostpc' = "lock"
               /\ tick_empty' = (bcrypt_queue = <<>>)
               /\ UNCHANGED bcrypt_queue
          ELSE /\ bcrypt_queue' = <<>>
               /\ UNCHANGED <<hostpc, tick_empty>>
    /\ UNCHANGED <<p_Amx, mutex, threads, a, t, last, calls, pushed, cycle>>

\* if (bcrypt_queue.size() > 0): fall through and return, or go on to the lock
ProcessTickEnter ==
    /\ hostpc = "idle"
    /\ \E positive \in SizePositive :
          IF positive
          THEN /\ hostpc' = "lock"
               /\ tick_empty' = (bcrypt_queue = <<>>)
          ELSE UNCHANGED <<hostpc, tick_empty>>
    /\ UNCHANGED <<p_Amx, bcrypt_queue, mutex, threads, a, t, last, calls, pushed, cycle>>

\* ProcessTickLock without the lock_guard: the loops run unprotected
ProcessTickLock_NoMutex ==
    /\ hostpc = "lock"
    /\ hostpc' = "iter"
    /\ a' = 1
    /\ t' = 1
    /\ cycle' = cycle + 1
    /\ UNCHANGED <<p_Amx, bcrypt_queue, mutex, threads, last, calls, pushed, tick_empty>>

\* std::lock_guard<std::mutex> lock(bcrypt_queue_mutex); a = p_Amx.begin();
\* t = bcrypt_queue.begin()
ProcessTickLock ==
    /\ hostpc = "lock"
    /\ mutex = Free
    /\ mutex' = HostOwner
    /\ hostpc' = "iter"
    /\ a' = 1
    /\ t' = 1
    /\ cycle' = cycle + 1
    /\ UNCHANGED <<p_Amx, bcrypt_queue, threads, last, calls, pushed, tick_empty>>

\* amx_FindPublic: AMX_ERR_NONE (0) when the script has the public, an
\* error code otherwise
amx_FindPublic(amx, name) == IF name \in Publics(amx) THEN 0 ELSE 1

\* the public that the code looks up for an item
CallbackName(item) ==
    IF item.type = "BCRYPT_QUEUE_HASH" THEN "OnBcryptHashed" ELSE "OnBcryptChecked"

\* CallbackArgs with thread_id and thread_idx pushed in each other's place
CallbackArgs_Swapped(item) ==
    IF item.type = "BCRYPT_QUEUE_HASH"
    THEN <<item.thread_id, item.thread_idx, item.hash>>
    ELSE <<item.thread_id, item.thread_idx, item.match>>

\* the cells pushed for the public, in the order of its parameters
CallbackArgs(item) ==
    IF item.type = "BCRYPT_QUEUE_HASH"
    THEN <<item.thread_idx, item.thread_id, item.hash>>
    ELSE <<item.thread_idx, item.thread_id, item.match>>

\* ProcessTickNextAmx leaving the outer loop after the first AMX
ProcessTickNextAmx_Break ==
    /\ hostpc = "iter"
    /\ a \in DOMAIN p_Amx
    /\ t > Len(bcrypt_queue)
    /\ a' = Len(p_Amx) + 1
    /\ t' = 1
    /\ UNCHANGED <<p_Amx, bcrypt_queue, mutex, threads, hostpc, last, calls, pushed, cycle, tick_empty>>

\* the inner loop is at its end: ++a, t = bcrypt_queue.begin()
ProcessTickNextAmx ==
    /\ hostpc = "iter"
    /\ a \in DOMAIN p_Amx
    /\ t > Len(bcrypt_queue)
    /\ a' = a + 1
    /\ t' = 1
    /\ UNCHANGED <<p_Amx, bcrypt_queue, mutex, threads, hostpc, last, calls, pushed, cycle, tick_empty>>

\* ProcessTickSkip treating the missing public as an error and leaving both
\* loops
ProcessTickSkip_Abort ==
    /\ hostpc = "iter"
    /\ a \in DOMAIN p_Amx
    /\ t \in DOMAIN bcrypt_queue
    /\ amx_FindPublic(p_Amx[a], CallbackName(bcrypt_queue[t])) # 0
    /\ a' = Len(p_Amx) + 1
    /\ t' = t
    /\ UNCHANGED <<p_Amx, bcrypt_queue, mutex, threads, hostpc, last, calls, pushed, cycle, tick_empty>>

\* amx_FindPublic fails: nothing is pushed or executed, ++t
ProcessTickSkip ==
    /\ hostpc = "iter"
    /\ a \in DOMAIN p_Amx
    /\ t \in DOMAIN bcrypt_queue
    /\ amx_FindPublic(p_Amx[a], CallbackName(bcrypt_queue[t])) # 0
    /\ t' = t + 1
    /\ UNCHANGED <<p_Amx, bcrypt_queue, mutex, threads, hostpc, a, last, calls, pushed, cycle, tick_empty>>

\* amx_FindPublic succeeds: push the arguments and enter amx_Exec
ProcessTickExec ==
    /\ hostpc = "iter"
    /\ a \in DOMAIN p_Amx
    /\ t \in DOMAIN bcrypt_queue
    /\ amx_FindPublic(p_Amx[a], CallbackName(bcrypt_queue[t])) = 0
    /\ calls' = Append(calls,
          [cycle |-> cycle, a |-> a, t |-> t, amx |-> p_Amx[a],
           name |-> CallbackName(bcrypt_queue[t]),
           args |-> CallbackArgs(bcrypt_queue[t]),
           job |-> bcrypt_queue[t].job])
    /\ hostpc' = "exec"
    /\ UNCHANGED <<p_Amx, bcrypt_queue, mutex, threads, a, t, last, pushed, cycle, tick_empty>>

\* ProcessTickReturn releasing the mutex, as if the lock_guard were scoped
\* to one callback
ProcessTickReturn_Release ==
    /\ hostpc = "exec"
    /\ hostpc' = "iter"
    /\ t' = t + 1
    /\ mutex' = Free
    /\ UNCHANGED <<p_Amx, bcrypt_queue, threads, a, last, calls, pushed, cycle, tick_empty>>

\* amx_Exec returns; ++t
ProcessTickReturn ==
    /\ hostpc = "exec"
    /\ hostpc' = "iter"
    /\ t' = t + 1
    /\ UNCHANGED <<p_Amx, bcrypt_queue, mutex, threads, a, last, calls, pushed, cycle, tick_empty>>

\* ProcessTickClear without bcrypt_queue.clear()
ProcessTickClear_NoClear ==
    /\ hostpc = "iter"
    /\ a > Len(p_Amx)
    /\ Len(calls) <= MaxJobs * MaxAmx
    /\ mutex' = Free
    /\ hostpc' = "idle"
    /\ a' = 0
    /\ t' = 0
    /\ tick_empty' = FALSE
    /\ UNCHANGED <<p_Amx, bcrypt_queue, threads, last, calls, pushed, cycle>>

\* ProcessTickClear keeping the queue when no script is registered, so that
\* undelivered items wait for one
ProcessTickClear_KeepUndelivered ==
    /\ hostpc = "iter"
    /\ a > Len(p_Amx)
    /\ bcrypt_queue' = (IF p_Amx = <<>> THEN bcrypt_queue ELSE <<>>)
    /\ mutex' = Free
    /\ hostpc' = "idle"
    /\ a' = 0
    /\ t' = 0
    /\ tick_empty' = FALSE
    /\ UNCHANGED <<p_Amx, threads, last, calls, pushed, cycle>>

\* the outer loop is at its end: bcrypt_queue.clear(), the lock_guard
\* releases the mutex, ProcessTick returns
ProcessTickClear ==
    /\ hostpc = "iter"
    /\ a > Len(p_Amx)
    /\ bcrypt_queue' = <<>>
    /\ mutex' = Free
    /\ hostpc' = "idle"
    /\ a' = 0
    /\ t' = 0
    /\ tick_empty' = FALSE
    /\ UNCHANGED <<p_Amx, threads, last, calls, pushed, cycle>>

ProcessTick ==
    \/ ProcessTickEnter
    \/ ProcessTickLock
    \/ ProcessTickNextAmx
    \/ ProcessTickSkip
    \/ ProcessTickExec
    \/ ProcessTickReturn
    \/ ProcessTickClear

----------------------------------------------------------------------------
(* The registry hooks. The host calls them between ticks, on its one thread. *)

\* AmxLoad keeping one entry per handle
AmxLoad_Dedup(amx) ==
    /\ hostpc = "idle"
    /\ Len(p_Amx) < MaxAmx
    /\ p_Amx' = (IF amx \in Range(p_Amx) THEN p_Amx ELSE Append(p_Amx, amx))
    /\ UNCHANGED <<bcrypt_queue, mutex, threads, hostpc, a, t, last, calls, pushed, cycle, tick_empty>>

\* p_Amx.push_back(amx)
AmxLoad(amx) ==
    /\ hostpc = "idle"
    /\ Len(p_Amx) < MaxAmx
    /\ p_Amx' = Append(p_Amx, amx)
    /\ UNCHANGED <<bcrypt_queue, mutex, threads, hostpc, a, t, last, calls, pushed, cycle, tick_empty>>

\* EraseFrom without the break: every entry equal to amx is erased
RECURSIVE EraseFrom_NoBreak(_, _, _)
EraseFrom_NoBreak(v, amx, i) ==
    IF i > Len(v) THEN v
    ELSE IF v[i] = amx
         THEN EraseFrom_NoBreak(SubSeq(v, 1, i - 1) \o SubSeq(v, i + 1, Len(v)), amx, i)
         ELSE EraseFrom_NoBreak(v, amx, i + 1)

\* the loop of AmxUnload from index i on: erase the first entry equal to
\* amx and stop
RECURSIVE EraseFrom(_, _, _)
EraseFrom(v, amx, i) ==
    IF i > Len(v) THEN v
    ELSE IF v[i] = amx
         THEN SubSeq(v, 1, i - 1) \o SubSeq(v, i + 1, Len(v))
         ELSE EraseFrom(v, amx, i + 1)

AmxUnload(amx) ==
    /\ hostpc = "idle"
    /\ p_Amx' = EraseFrom(p_Amx, amx, 1)
    /\ UNCHANGED <<bcrypt_queue, mutex, threads, hostpc, a, t, last, calls, pushed, cycle, tick_empty>>

\* p_Amx.clear()
Unload ==
    /\ hostpc = "idle"
    /\ p_Amx' = <<>>
    /\ UNCHANGED <<bcrypt_queue, mutex, threads, hostpc, a, t, last, calls, pushed, cycle, tick_empty>>

----------------------------------------------------------------------------

Next ==
    \/ \E amx \in AMX, params \in HashParams : bcrypt_hash(amx, params)
    \/ \E amx \in AMX, params \in CheckParams : bcrypt_check(amx, params)
    \/ \E j \in DOMAIN threads : thread_generate_bcrypt(j)
    \/ \E j \in DOMAIN threads : thread_check_bcrypt(j)
    \/ ProcessTick
    \/ \E amx \in AMX : AmxLoad(amx)
    \/ \E amx \in AMX : AmxUnload(amx)
    \/ Unload

Spec == Init /\ [][Next]_vars

\* Scheduling: every started thread keeps running (it takes the mutex when
\* it is free and then pushes), and the host keeps calling ProcessTick and
\* a ProcessTick that has begun runs on (callbacks return, the mutex is
\* taken when it is free).
Fairness ==
    /\ \A j \in 1..MaxJobs : WF_vars(ThreadLock(j)) /\ WF_vars(ThreadPush(j))
    /\ WF_vars(ProcessTick)

FairSpec == Spec /\ Fairness

\* The same with a registry that stays as it is once the first native call
\* has been accepted.
NextFixed ==
    \/ \E amx \in AMX, params \in HashParams : bcrypt_hash(amx, params)
    \/ \E amx \in AMX, params \in CheckParams : bcrypt_check(amx, params)
    \/ \E j \in DOMAIN threads : thread_generate_bcrypt(j)
    \/ \E j \in DOMAIN threads : thread_check_bcrypt(j)
    \/ ProcessTick
    \/ threads = <<>> /\ \E amx \in AMX : AmxLoad(amx)
    \/ threads = <<>> /\ \E amx \in AMX : AmxUnload(amx)
    \/ threads = <<>> /\ Unload

FixedSpec == Init /\ [][NextFixed]_vars /\ Fairness

----------------------------------------------------------------------------
(* Definitions shared by the properties. *)

\* the host is at the end of a drain cycle, about to clear the queue
AtCycleEnd == hostpc = "iter" /\ a > Len(p_Amx)

\* the amx_Exec invocations of the running cycle
CycleCalls == {c \in DOMAIN calls : calls[c].cycle = cycle}

\* the invocations of the running cycle on registry entry k
CycleCallsOn(k) == {c \in CycleCalls : calls[c].a = k}

----------------------------------------------------------------------------
(* C3 *)

\* C3: a bcrypt_hash call with four arguments whose cost argument is below 4
\* or above 31 returns 0 and starts no thread; one whose cost argument is in
\* 4..31 returns 1 and starts exactly one thread.
C3_CostBoundsOnArgument ==
    [][\A amx \in AMX, params \in HashParams :
          (params.n = 4 * CellSize /\ bcrypt_hash(amx, params)) =>
             IF params.cost < 4 \/ params.cost > 31
             THEN last'.ret = 0 /\ threads' = threads
             ELSE last'.ret = 1 /\ Len(threads') = Len(threads) + 1]_vars

----------------------------------------------------------------------------
(* C5 *)

\* C5: at the end of a drain cycle that found one item in the queue and M
\* registry entries that all have the item's public, exactly M invocations
\* were made in the cycle, one on each registry entry, each for that item,
\* whatever the item's thread_idx.
C5_BroadcastFanOut ==
    (/\ AtCycleEnd
     /\ Len(bcrypt_queue) = 1
     /\ \A k \in DOMAIN p_Amx : CallbackName(bcrypt_queue[1]) \in Publics(p_Amx[k]))
    => /\ Cardinality(CycleCalls) = Len(p_Amx)
       /\ \A k \in DOMAIN p_Amx :
            /\ Cardinality(CycleCallsOn(k)) = 1
            /\ \A c \in CycleCallsOn(k) :
                 /\ calls[c].job = bcrypt_queue[1].job
                 /\ calls[c].amx = p_Amx[k]
                 /\ calls[c].args[1] = bcrypt_queue[1].thread_idx

\* a cycle has delivered one item, whose thread_idx is 1, to two different
\* scripts
C5_Witness ==
    /\ AtCycleEnd
    /\ p_Amx = <<1, 2>>
    /\ Len(bcrypt_queue) = 1
    /\ bcrypt_queue[1].type = "BCRYPT_QUEUE_HASH"
    /\ bcrypt_queue[1].thread_idx = 1
    /\ Cardinality(CycleCalls) = 2

----------------------------------------------------------------------------
(* C7 *)

----------------------------------------------------------------------------
(* C8 *)

\* the place of a thread's push_back among all push_backs made so far
PushIndex(job) == CHOOSE k \in DOMAIN pushed : pushed[k].item.job = job

\* C8: within one cycle the invocations are made in registry order and, for
\* one registry entry, in queue order; and the queue holds the items in the
\* order in which the threads completed their push_backs.
C8_DeliveryOrder ==
    /\ \A c1, c2 \in DOMAIN calls :
          (c1 < c2 /\ calls[c1].cycle = calls[c2].cycle) =>
             \/ calls[c1].a < calls[c2].a
             \/ /\ calls[c1].a = calls[c2].a
                /\ calls[c1].t < calls[c2].t
                /\ PushIndex(calls[c1].job) < PushIndex(calls[c2].job)
    /\ \A i, j \in DOMAIN bcrypt_queue :
          i < j => PushIndex(bcrypt_queue[i].job) < PushIndex(bcrypt_queue[j].job)

\* a cycle over two registry entries and two items has made its four
\* invocations, and the thread started second completed first, so that its
\* item was delivered first
C8_Witness ==
    /\ AtCycleEnd
    /\ Len(p_Amx) = 2
    /\ Cardinality(CycleCalls) = 4
    /\ \E c1, c2 \in CycleCalls :
          /\ c1 < c2
          /\ calls[c1].a = calls[c2].a
          /\ calls[c1].job = 2
          /\ calls[c2].job = 1

----------------------------------------------------------------------------
(* C9 *)

\* C9: when a cycle ends, each registry entry has been invoked exactly once
\* for each queued item whose public it has and not at all for an item whose
\* public it lacks, whatever the other entries and items are; and the cycle
\* ends by emptying the queue.
C9_MissingCallbackSkipped ==
    [][(hostpc = "iter" /\ hostpc' = "idle") =>
          /\ \A k \in DOMAIN p_Amx, i \in DOMAIN bcrypt_queue :
                Cardinality({c \in CycleCallsOn(k) :
                               /\ calls[c].t = i
                               /\ calls[c].job = bcrypt_queue[i].job
                               /\ calls[c].name = CallbackName(bcrypt_queue[i])})
                  = IF CallbackName(bcrypt_queue[i]) \in Publics(p_Amx[k]) THEN 1 ELSE 0
          /\ Cardinality(CycleCalls)
                = Cardinality({<<k, i>> \in (DOMAIN p_Amx) \X (DOMAIN bcrypt_queue) :
                                 CallbackName(bcrypt_queue[i]) \in Publics(p_Amx[k])})
          /\ bcrypt_queue' = <<>>]_vars

\* a cycle is at its end in which script 2, first in the registry, lacks
\* OnBcryptChecked for the first item, and script 1 after it was invoked
\* for that item and both were invoked for the item after it
C9_Witness ==
    /\ AtCycleEnd
    /\ p_Amx = <<2, 1>>
    /\ Len(bcrypt_queue) = 2
    /\ bcrypt_queue[1].type = "BCRYPT_QUEUE_CHECK"
    /\ bcrypt_queue[2].type = "BCRYPT_QUEUE_HASH"
    /\ Cardinality(CycleCallsOn(1)) = 1
    /\ Cardinality(CycleCallsOn(2)) = 2

----------------------------------------------------------------------------
(* C10 *)

\* the index of the first entry of v equal to amx
FirstIndex(v, amx) ==
    CHOOSE i \in DOMAIN v : v[i] = amx /\ \A k \in 1..(i - 1) : v[k] # amx

\* C10: AmxLoad(amx) puts amx at the end of the registry; AmxUnload(amx)
\* removes the first entry equal to amx and keeps all others in order, or
\* changes nothing when there is none; neither changes the queue.
C10_RegistryLifecycle ==
    [][\A amx \in AMX :
          /\ AmxLoad(amx) =>
                /\ Len(p_Amx') = Len(p_Amx) + 1
                /\ p_Amx'[Len(p_Amx')] = amx
                /\ \A k \in DOMAIN p_Amx : p_Amx'[k] = p_Amx[k]
                /\ bcrypt_queue' = bcrypt_queue
          /\ AmxUnload(amx) =>
                /\ bcrypt_queue' = bcrypt_queue
                /\ IF \A k \in DOMAIN p_Amx : p_Amx[k] # amx
                   THEN p_Amx' = p_Amx
                   ELSE /\ Len(p_Amx') = Len(p_Amx) - 1
                        /\ \A k \in DOMAIN p_Amx' :
                              p_Amx'[k] = IF k < FirstIndex(p_Amx, amx)
                                          THEN p_Amx[k] ELSE p_Amx[k + 1]]_vars

\* the registry holds script 1 twice, after script 1 was loaded a second
\* time, while an item waits in the queue: AmxUnload(1) must leave one
\* entry, AmxUnload(2) must change nothing
C10_Witness ==
    /\ p_Amx = <<1, 1>>
    /\ bcrypt_queue # <<>>
    /\ ENABLED AmxUnload(1)
    /\ ENABLED AmxUnload(2)

----------------------------------------------------------------------------
(* C2 *)

\* C2: an item is delivered only in the first cycle that takes the mutex
\* after the item's push_back (so in one cycle only); an item that was pushed
\* stays in the queue until such a cycle has begun; and the step that ends a
\* cycle and clears the queue removes only items that this cycle has offered
\* to every registry entry.
C2_NoLossAcrossAppendAndDrain ==
    /\ [](\A c \in DOMAIN calls :
             calls[c].cycle = pushed[PushIndex(calls[c].job)].cycle + 1)
    /\ [](\A k \in DOMAIN pushed :
             \/ \E i \in DOMAIN bcrypt_queue : bcrypt_queue[i] = pushed[k].item
             \/ pushed[k].cycle < cycle)
    /\ [][(hostpc = "iter" /\ hostpc' = "idle") =>
             \A i \in DOMAIN bcrypt_queue, k \in DOMAIN p_Amx :
                CallbackName(bcrypt_queue[i]) \in Publics(p_Amx[k]) =>
                   \E c \in CycleCallsOn(k) : calls[c].job = bcrypt_queue[i].job]_vars

\* a thread pushed its item after the first cycle had taken the mutex, and
\* the second cycle has delivered it and cleared the queue
C2_Witness ==
    /\ hostpc = "idle"
    /\ bcrypt_queue = <<>>
    /\ \E c1, c2 \in DOMAIN calls :
          /\ calls[c1].cycle = 1
          /\ calls[c2].cycle = 2
          /\ pushed[PushIndex(calls[c2].job)].cycle = 1

----------------------------------------------------------------------------
(* C6 *)

\* the host thread is where a script with handle amx can call a native
HostRunsScript(amx) ==
    \/ hostpc = "idle" /\ \E k \in DOMAIN p_Amx : p_Amx[k] = amx
    \/ hostpc = "exec" /\ p_Amx[a] = amx

\* C6: wherever a script can call a native, a well-formed bcrypt_hash or
\* bcrypt_check call can complete, whoever holds the queue mutex and
\* whatever the threads are doing; and a call that returns 1 leaves the
\* mutex and the queue as they were and returns with its new thread not
\* having pushed.
C6_NonBlockingDispatch ==
    /\ [](\A amx \in AMX :
             (HostRunsScript(amx) /\ Len(threads) < MaxJobs) =>
                /\ \A params \in HashParams : ENABLED bcrypt_hash(amx, params)
                /\ \A params \in CheckParams : ENABLED bcrypt_check(amx, params))
    /\ [][\A amx \in AMX :
             (/\ \/ \E params \in HashParams : bcrypt_hash(amx, params)
                 \/ \E params \in CheckParams : bcrypt_check(amx, params)
              /\ last'.ret = 1) =>
                /\ mutex' = mutex
                /\ bcrypt_queue' = bcrypt_queue
                /\ pushed' = pushed
                /\ Len(threads') = Len(threads) + 1
                /\ threads'[Len(threads')].pc = "run"
                /\ \A j \in DOMAIN threads : threads'[j] = threads[j]]_vars

\* a native has just returned 1 from inside a callback, while ProcessTick
\* holds the mutex and the thread started earlier has not pushed yet
C6_Witness ==
    /\ hostpc = "exec"
    /\ mutex = HostOwner
    /\ last.ret = 1
    /\ Len(threads) = 2
    /\ threads[1].pc = "done"
    /\ threads[2].pc = "run"

----------------------------------------------------------------------------
(* C4 *)

\* the push_backs made so far for thread j
PushesOf(j) == {k \in DOMAIN pushed : pushed[k].item.job = j}

\* the kind of item that a thread of function fn produces
KindOf(fn) ==
    IF fn = "thread_generate_bcrypt" THEN "BCRYPT_QUEUE_HASH" ELSE "BCRYPT_QUEUE_CHECK"

\* C4: no more items are ever pushed than calls were accepted, at most one
\* per accepted call, each with the kind, thread_idx and thread_id of its
\* call; and under fair scheduling every accepted call's item is eventually
\* pushed.
C4_OneResultPerJob ==
    /\ [](/\ Len(pushed) <= Len(threads)
          /\ \A j \in DOMAIN threads : Cardinality(PushesOf(j)) <= 1
          /\ \A k \in DOMAIN pushed :
                LET item == pushed[k].item IN
                /\ item.job \in DOMAIN threads
                /\ item.type = KindOf(threads[item.job].fn)
                /\ item.thread_idx = threads[item.job].thread_idx
                /\ item.thread_id = threads[item.job].thread_id)
    /\ \A j \in 1..MaxJobs :
          (j \in DOMAIN threads) ~> (Cardinality(PushesOf(j)) = 1)

\* a bcrypt_hash call and a bcrypt_check call were accepted and both
\* threads have pushed their items
C4_Witness ==
    /\ Len(threads) = 2
    /\ threads[1].fn = "thread_generate_bcrypt"
    /\ threads[2].fn = "thread_check_bcrypt"
    /\ Len(pushed) = 2
    /\ \A j \in DOMAIN threads : threads[j].pc = "done" /\ Cardinality(PushesOf(j)) = 1

----------------------------------------------------------------------------
(* C1 *)

\* the accepted bcrypt_hash calls
HashJobs == {j \in DOMAIN threads : threads[j].fn = "thread_generate_bcrypt"}

\* the accepted bcrypt_hash calls have pairwise different thread_ids
DistinctHashIds ==
    \A i, j \in HashJobs : i # j => threads[i].thread_id # threads[j].thread_id

\* every registry entry has the public OnBcryptHashed
AllHaveOnBcryptHashed ==
    \A k \in DOMAIN p_Amx : "OnBcryptHashed" \in Publics(p_Amx[k])

\* the OnBcryptHashed invocations made so far on registry entry k with
\* thread_id id
HashedCalls(k, id) ==
    {c \in DOMAIN calls :
        calls[c].a = k /\ calls[c].name = "OnBcryptHashed" /\ calls[c].args[2] = id}

\* the OnBcryptHashed invocations made so far on registry entry k
AllHashedCalls(k) ==
    {c \in DOMAIN calls : calls[c].a = k /\ calls[c].name = "OnBcryptHashed"}

----------------------------------------------------------------------------
(* C11 *)

\* the host is inside a drain cycle: it has taken the mutex and not yet
\* cleared the queue
InCycle == hostpc \in {"iter", "exec"}

----------------------------------------------------------------------------
(* C12 *)

\* who is inside a section guarded by bcrypt_queue_mutex: the threads
\* between their lock_guard and their return, ProcessTick between its
\* lock_guard and the end of its if block
Holders ==
    {ThreadOwner(j) : j \in {i \in DOMAIN threads : threads[i].pc = "locked"}}
        \cup (IF InCycle THEN {HostOwner} ELSE {})

\* C12: bcrypt_queue changes only by a thread's push_back or by
\* ProcessTick's clear, each made by the owner of bcrypt_queue_mutex; at
\* most one thread is inside a guarded section in any reachable state; a
\* thread that owns the mutex does nothing but its one push_back, which
\* releases the mutex and ends the thread for good; and the queue
\* ProcessTick iterates stays as it is from ProcessTickLock to the clear.
C12_LockDiscipline ==
    /\ [](/\ Cardinality(Holders) <= 1
          /\ Holders = (IF mutex = Free THEN {} ELSE {mutex}))
    /\ [][bcrypt_queue' # bcrypt_queue =>
            \/ \E j \in DOMAIN threads :
                 /\ mutex = ThreadOwner(j)
                 /\ bcrypt_queue' = Append(bcrypt_queue, QueueItem(j))
            \/ /\ mutex = HostOwner
               /\ bcrypt_queue' = <<>>]_vars
    /\ [][\A j \in DOMAIN threads :
            /\ threads[j].pc = "locked" /\ threads'[j] # threads[j] =>
                 /\ threads'[j].pc = "done"
                 /\ bcrypt_queue' = Append(bcrypt_queue, QueueItem(j))
                 /\ mutex' = Free
            /\ threads[j].pc = "done" => threads'[j] = threads[j]]_vars
    /\ [][InCycle /\ InCycle' => bcrypt_queue' = bcrypt_queue]_vars

\* ProcessTick, owning the mutex, is between the two items of a queue of
\* two, with a callback already made
C12_Witness ==
    /\ hostpc = "iter"
    /\ mutex = HostOwner
    /\ Len(bcrypt_queue) = 2
    /\ t = 2
    /\ calls # <<>>

----------------------------------------------------------------------------
(* C13 *)

\* the public a thread's result is for
PublicOf(fn) ==
    IF fn = "thread_generate_bcrypt" THEN "OnBcryptHashed" ELSE "OnBcryptChecked"

\* the (native, thread_idx, thread_id) of the calls the natives accept
AcceptedTriples ==
    {<<"OnBcryptHashed", p.thread_idx, p.thread_id>> :
        p \in {q \in HashParams : q.n = 4 * CellSize /\ ~CostInvalid(ToUShort(q.cost))}}
    \cup {<<"OnBcryptChecked", p.thread_idx, p.thread_id>> :
        p \in {q \in CheckParams : q.n = 4 * CellSize}}

\* C13: every callback made is for a thread some accepted native call
\* started: the public is OnBcryptHashed for a bcrypt_hash call and
\* OnBcryptChecked for a bcrypt_check call, and its first two arguments
\* are the thread_idx and thread_id that call was given; no callback
\* carries a (public, thread_idx, thread_id) no accepted call had.
C13_NoMisrouting ==
    \A c \in DOMAIN calls :
        /\ calls[c].job \in DOMAIN threads
        /\ calls[c].name = PublicOf(threads[calls[c].job].fn)
        /\ calls[c].args[1] = threads[calls[c].job].thread_idx
        /\ calls[c].args[2] = threads[calls[c].job].thread_id
        /\ <<calls[c].name, calls[c].args[1], calls[c].args[2]>> \in AcceptedTriples
        /\ \E j \in DOMAIN threads :
              <<calls[c].name, calls[c].args[1], calls[c].args[2]>>
                  = <<PublicOf(threads[j].fn), threads[j].thread_idx, threads[j].thread_id>>

\* a bcrypt_hash call and a bcrypt_check call with different thread_idx
\* and thread_id have both had their callback
C13_Witness ==
    \E c, d \in DOMAIN calls :
        /\ calls[c].name = "OnBcryptHashed"
        /\ calls[d].name = "OnBcryptChecked"
        /\ calls[c].args[1] # calls[d].args[1]
        /\ calls[c].args[2] # calls[d].args[2]
        /\ calls[c].args[1] # calls[c].args[2]

----------------------------------------------------------------------------
(* C14 *)

\* bcrypt_queue' is bcrypt_queue, or bcrypt_queue with one thread's item
\* pushed at its back
QueueKeptOrPushed ==
    \/ bcrypt_queue' = bcrypt_queue
    \/ \E j \in DOMAIN threads : bcrypt_queue' = Append(bcrypt_queue, QueueItem(j))

\* C14: the size test of ProcessTick is made without the mutex and can
\* find the queue empty while a thread owns the mutex for its push_back.
\* A ProcessTick that finds the queue empty returns at once: as long as
\* ProcessTick has not taken the mutex no callback is made and nothing
\* leaves the queue, so the item pushed meanwhile stays. Items leave the
\* queue only in the clear of a cycle that began after their push, and in
\* that cycle (the first ProcessTick after the push that found the queue
\* non-empty) each was offered to every registry entry that has its public.
C14_BenignSizeRace ==
    /\ [](hostpc = "idle" /\ mutex.owner = "thread" =>
             FALSE \in SizePositive /\ ENABLED ProcessTickEnter)
    /\ [][~InCycle =>
             (/\ calls' = calls
              /\ QueueKeptOrPushed
              /\ (hostpc' # hostpc => (bcrypt_queue' = bcrypt_queue /\ pushed' = pushed)))]_vars
    /\ [][~QueueKeptOrPushed =>
             (/\ AtCycleEnd
              /\ bcrypt_queue' = <<>>
              /\ \A i \in DOMAIN bcrypt_queue :
                    /\ pushed[PushIndex(bcrypt_queue[i].job)].cycle = cycle - 1
                    /\ \A k \in DOMAIN p_Amx :
                          amx_FindPublic(p_Amx[k], CallbackName(bcrypt_queue[i])) = 0 =>
                             \E c \in CycleCallsOn(k) :
                                (calls[c].t = i /\ calls[c].job = bcrypt_queue[i].job))]_vars

\* ProcessTick can be called, and can find the queue empty, while a thread
\* owns the mutex for its push_back and a script is registered
C14_Witness ==
    /\ hostpc = "idle"
    /\ mutex.owner = "thread"
    /\ bcrypt_queue = <<>>
    /\ p_Amx # <<>>
    /\ calls = <<>>

----------------------------------------------------------------------------
(* C15 *)

\* what a native does when it refuses a call: it returns 0 after one
\* bcrypt_error line that names it, starts no thread and leaves the queue
\* and the registry as they were
Rejected(funcname) ==
    /\ last'.ret = 0
    /\ last'.fn = funcname
    /\ last'.diag # ""
    /\ threads' = threads
    /\ bcrypt_queue' = bcrypt_queue
    /\ p_Amx' = p_Amx

\* C15: a bcrypt_hash or bcrypt_check call whose argument count is not
\* four, and a bcrypt_hash call whose cost argument is outside 4..31, is
\* refused (returns 0, one error line naming the native, no thread, queue
\* and registry unchanged); a wrong argument count is reported whatever
\* the cost; a bcrypt_check call with four arguments returns 1 and starts
\* exactly one thread, whatever its password and hash.
C15_RejectionLeavesStateUnchanged ==
    [][\A amx \in AMX :
          /\ \A params \in HashParams :
                bcrypt_hash(amx, params) =>
                   /\ params.n # 4 * CellSize =>
                         /\ Rejected("bcrypt_hash")
                         /\ last'.diag = "Incorrect number of parameters (4 required)"
                   /\ (params.cost < 4 \/ params.cost > 31) => Rejected("bcrypt_hash")
          /\ \A params \in CheckParams :
                bcrypt_check(amx, params) =>
                   IF params.n # 4 * CellSize
                   THEN Rejected("bcrypt_check")
                   ELSE /\ last'.ret = 1
                        /\ Len(threads') = Len(threads) + 1
                        /\ bcrypt_queue' = bcrypt_queue
                        /\ p_Amx' = p_Amx]_vars

----------------------------------------------------------------------------
(* C16 *)

\* some thread takes a step
ThreadStep == \E j \in DOMAIN threads : threads'[j] # threads[j]

\* C16: a callback is made only by ProcessTick, between taking the mutex
\* and its clear (one amx_Exec per step, recorded with the running cycle),
\* and a callback is running only inside such a cycle; a step of a thread
\* makes no callback and leaves the registry alone; the registry changes
\* only by AmxLoad, AmxUnload and Unload.
C16_CallbacksOnHostThread ==
    /\ [](hostpc = "exec" =>
             /\ mutex = HostOwner
             /\ calls # <<>>
             /\ calls[Len(calls)].cycle = cycle
             /\ calls[Len(calls)].amx = p_Amx[a])
    /\ [][calls' # calls =>
             (/\ hostpc = "iter" /\ hostpc' = "exec"
              /\ mutex = HostOwner
              /\ threads' = threads
              /\ \E call \in [cycle : {cycle}, a : {a}, t : {t}, amx : {p_Amx[a]},
                              name : {CallbackName(bcrypt_queue[t])},
                              args : {CallbackArgs(bcrypt_queue[t])},
                              job : {bcrypt_queue[t].job}] :
                    calls' = Append(calls, call))]_vars
    /\ [][ThreadStep => (calls' = calls /\ p_Amx' = p_Amx /\ hostpc' = hostpc)]_vars
    /\ [][p_Amx' # p_Amx =>
             (/\ hostpc = "idle"
              /\ \/ \E amx \in AMX : AmxLoad(amx) \/ AmxUnload(amx)
                 \/ Unload)]_vars

\* a callback of a second cycle is running while both threads have ended
C16_Witness ==
    /\ hostpc = "exec"
    /\ cycle = 2
    /\ Len(threads) = 2
    /\ \A j \in DOMAIN threads : threads[j].pc = "done"

----------------------------------------------------------------------------
(* C17 *)

\* the threads whose item is in the queue
QueuedJobs == {bcrypt_queue[i].job : i \in DOMAIN bcrypt_queue}

\* the callbacks made for thread j's item
CallsOf(j) == {c \in DOMAIN calls : calls[c].job = j}

\* thread j's item has been pushed and has left the queue
Drained(j) == j \in DOMAIN threads /\ threads[j].pc = "done" /\ j \notin QueuedJobs

\* C17: an item is offered only in the cycle that clears it (the first one
\* begun after its push) and only to entries the registry holds in that
\* cycle; a cycle that runs with an empty registry makes no callback and
\* still clears the queue; and once an item has left the queue no callback
\* is ever made for it again, whoever is registered later.
C17_DeliveredOnlyToRegistered ==
    /\ [](\A c \in DOMAIN calls :
             /\ calls[c].cycle = pushed[PushIndex(calls[c].job)].cycle + 1
             /\ (InCycle /\ calls[c].cycle = cycle) =>
                   (calls[c].a \in DOMAIN p_Amx /\ calls[c].amx = p_Amx[calls[c].a]))
    /\ [](AtCycleEnd /\ p_Amx = <<>> => CycleCalls = {})
    /\ [][AtCycleEnd /\ hostpc' # hostpc =>
             (bcrypt_queue' = <<>> /\ calls' = calls /\ p_Amx' = p_Amx)]_vars
    /\ [][InCycle => p_Amx' = p_Amx]_vars
    /\ [][\A j \in DOMAIN threads : Drained(j) => (Drained(j)' /\ CallsOf(j)' = CallsOf(j))]_vars

\* a cycle that runs with an empty registry is at its end, about to clear a
\* queue of two items for which no callback was made
C17_Witness ==
    /\ AtCycleEnd
    /\ p_Amx = <<>>
    /\ Len(bcrypt_queue) = 2
    /\ calls = <<>>

----------------------------------------------------------------------------
(* C18 *)

\* the threads started by a native called from inside a callback
BornInCallback == {j \in DOMAIN threads : threads[j].born > 0}

\* C18: while a callback runs (ProcessTick owning the mutex) the script can
\* call bcrypt_hash and bcrypt_check and the call returns 1 into the
\* running callback, with the mutex and the queue untouched, and the
\* callback can return; the thread so started has pushed nothing as long
\* as that cycle lasts, so its item is not in the queue that cycle clears;
\* its item is pushed after that cycle and every callback for it is made
\* in a later cycle; and under fair scheduling its item is pushed and
\* taken from the queue by a later cycle.
C18_ReentrantSubmission ==
    /\ [](hostpc = "exec" =>
             /\ mutex = HostOwner
             /\ ENABLED ProcessTickReturn
             /\ Len(threads) < MaxJobs =>
                   /\ \A params \in {q \in HashParams : q.n = 4 * CellSize} :
                         ENABLED bcrypt_hash(p_Amx[a], params)
                   /\ \A params \in {q \in CheckParams : q.n = 4 * CellSize} :
                         ENABLED bcrypt_check(p_Amx[a], params))
    /\ [][(hostpc = "exec" /\ Len(threads') > Len(threads)) =>
             (/\ hostpc' = "exec"
              /\ mutex' = HostOwner
              /\ bcrypt_queue' = bcrypt_queue
              /\ last'.ret = 1
              /\ threads'[Len(threads')].pc = "run"
              /\ threads'[Len(threads')].born = cycle)]_vars
    /\ [](\A j \in BornInCallback :
             /\ (InCycle /\ cycle = threads[j].born) =>
                   (threads[j].pc = "run" /\ j \notin QueuedJobs /\ PushesOf(j) = {})
             /\ \A k \in PushesOf(j) : pushed[k].cycle >= threads[j].born
             /\ \A c \in CallsOf(j) : calls[c].cycle > threads[j].born
             /\ Drained(j) => cycle > threads[j].born)
    /\ \A j \in 1..MaxJobs : (j \in BornInCallback) ~> Drained(j)

\* a thread started from inside a callback has had its own callback, in a
\* later cycle
C18_Witness ==
    \E j \in BornInCallback : \E c \in CallsOf(j) : calls[c].cycle = threads[j].born + 1

----------------------------------------------------------------------------
(* C19 *)

\* C19: a bcrypt_hash call with four arguments and cost argument v returns
\* 1 and starts one thread if v mod 65536 is in 4..31, and returns 0 and
\* starts none otherwise; the thread started is given v mod 65536 as its
\* cost, and the hash it pushes is the one generated with that cost.
C19_CostTruncatedTo16Bits ==
    /\ [][\A amx \in AMX, params \in HashParams :
             (params.n = 4 * CellSize /\ bcrypt_hash(amx, params)) =>
                IF (params.cost % 65536) \in 4..31
                THEN /\ last'.ret = 1
                     /\ Len(threads') = Len(threads) + 1
                     /\ threads'[Len(threads')].cost = params.cost % 65536
                     /\ threads'[Len(threads')].fn = "thread_generate_bcrypt"
                ELSE /\ last'.ret = 0
                     /\ threads' = threads]_vars
    /\ [](\A k \in DOMAIN pushed :
             pushed[k].item.type = "BCRYPT_QUEUE_HASH" =>
                /\ threads[pushed[k].item.job].cost \in 4..31
                /\ pushed[k].item.hash =
                      bcrypt_generate(threads[pushed[k].item.job].password,
                                      threads[pushed[k].item.job].cost))

\* the call with cost argument 65540 was accepted and its thread has
\* pushed a hash generated with cost 4
C19_Witness ==
    \E k \in DOMAIN pushed :
        /\ pushed[k].item.type = "BCRYPT_QUEUE_HASH"
        /\ pushed[k].item.thread_idx = 1
        /\ pushed[k].item.thread_id = 1
        /\ pushed[k].item.hash = bcrypt_generate("a", 4)

----------------------------------------------------------------------------
(* C20 *)

\* how many entries of v are amx
Count(v, amx) == Cardinality({i \in DOMAIN v : v[i] = amx})

\* the callbacks of the running cycle made on script amx for the item at
\* queue position i
CycleCallsFor(amx, i) == {c \in CycleCalls : calls[c].amx = amx /\ calls[c].t = i}

\* C20: every AmxLoad(amx) adds one entry for amx, whether or not the
\* registry holds one already, and AmxUnload(amx) takes exactly one away
\* (none when there is none); at the end of a cycle each item has had, on
\* each script that has its public, as many callbacks as the registry
\* holds entries for that script.
C20_NoDeduplication ==
    /\ [](\A amx \in AMX :
             (hostpc = "idle" /\ Len(p_Amx) < MaxAmx) =>
                ENABLED (AmxLoad(amx) /\ Count(p_Amx', amx) = Count(p_Amx, amx) + 1))
    /\ [][\A amx \in AMX :
             /\ AmxLoad(amx) => Count(p_Amx', amx) = Count(p_Amx, amx) + 1
             /\ AmxUnload(amx) =>
                   Count(p_Amx', amx) = (IF Count(p_Amx, amx) > 0
                                         THEN Count(p_Amx, amx) - 1 ELSE 0)]_vars
    /\ [](AtCycleEnd =>
             \A amx \in AMX, i \in DOMAIN bcrypt_queue :
                Cardinality(CycleCallsFor(amx, i)) =
                   (IF amx_FindPublic(amx, CallbackName(bcrypt_queue[i])) = 0
                    THEN Count(p_Amx, amx) ELSE 0))

\* a script registered twice had two callbacks for one item in the first
\* cycle and, with one entry left, has had one callback for the one item of
\* the second cycle
C20_Witness ==
    /\ AtCycleEnd
    /\ cycle = 2
    /\ p_Amx = <<1>>
    /\ Len(bcrypt_queue) = 1
    /\ Cardinality(CycleCallsFor(1, 1)) = 1
    /\ \E c, d \in DOMAIN calls :
          /\ c # d
          /\ calls[c].cycle = 1 /\ calls[d].cycle = 1
          /\ calls[c].amx = 1 /\ calls[d].amx = 1
          /\ calls[c].t = calls[d].t

====
